---- MODULE Spec2Model ----
(***************************************************************************)
(* Model of src/app/routes.py: the /event endpoint of the midnite alerting *)
(* service.  The state is the process-wide dictionary user_actions; the    *)
(* one operation is the request handler event(), which calls               *)
(* validate_payload(), appends the payload to the user's history and       *)
(* evaluates the four alert rules.                                         *)
(*                                                                         *)
(* JSON values are modelled with their Python type:                        *)
(*   amount  : [k : {"num","str","null"}, v : Int, s : Seq(char)]          *)
(*   user_id : [k : {"int","str","float"}, v : Int]                        *)
(*   time    : [k : {"int","str","float"}, v : Int]                        *)
(* A JSON string is the sequence of its characters, so that float() has to *)
(* parse it and the comparison of two strings is Python's lexicographic    *)
(* one.  A payload is a function from the keys it has to their values.     *)
(***************************************************************************)
EXTENDS Integers, Sequences, FiniteSets, TLC

VARIABLES
    user_actions,   \* routes.py:11  dict: user id -> list of stored payloads
    data,           \* routes.py:77  payload of the last request
    verdict,        \* routes.py:81  what validate_payload did on the last request
    result,         \* routes.py:86/125  response of the last request
    prev_actions,   \* user_actions as it was when the last request arrived
    requests        \* the requests being handled concurrently, one per worker
                    \* thread: the line each has reached and its local variables

vars == <<user_actions, data, verdict, result, prev_actions, requests>>

----------------------------------------------------------------------------
(* Bounds of the model *)

\* number of events stored over all users in the specification Spec
MaxEvents == 4

\* number of events stored in the specification SpecDeep
MaxDeep == 6

\* number of events stored in the specification SpecRun
MaxRun == 4

\* number of worker threads in the specification SpecConcurrent
MaxWorkers == 2

----------------------------------------------------------------------------
(* Python values *)

Num(n) == [k |-> "num", v |-> n, s |-> <<>>]
Str(cs) == [k |-> "str", v |-> 0, s |-> cs]
Null == [k |-> "null", v |-> 0, s |-> <<>>]
Int_(n) == [k |-> "int", v |-> n]
NotInt(kind, n) == [k |-> kind, v |-> n]

Digits == <<"0", "1", "2", "3", "4", "5", "6", "7", "8", "9">>

IsDigit(c) == \E i \in 1..10 : Digits[i] = c

DigitVal(c) == (CHOOSE i \in 1..10 : Digits[i] = c) - 1

\* code point of a character (Python compares strings by code point)
Ord(c) ==
    IF IsDigit(c) THEN 48 + DigitVal(c)
    ELSE CASE c = "-" -> 45
           [] c = "a" -> 97
           [] c = "b" -> 98
           [] c = "c" -> 99

RECURSIVE DigitsVal(_)
DigitsVal(cs) ==
    IF cs = <<>> THEN 0
    ELSE 10 * DigitsVal(SubSeq(cs, 1, Len(cs) - 1)) + DigitVal(cs[Len(cs)])

AllDigits(cs) == cs # <<>> /\ \A i \in 1..Len(cs) : IsDigit(cs[i])

\* float(x): a number converts, a string is parsed (an optional sign and
\* decimal digits; any other string raises ValueError), None raises TypeError
float(a) ==
    CASE a.k = "num" -> [exc |-> "none", v |-> a.v]
      [] a.k = "str" ->
            IF AllDigits(a.s) THEN [exc |-> "none", v |-> DigitsVal(a.s)]
            ELSE IF a.s # <<>> /\ a.s[1] = "-" /\ AllDigits(Tail(a.s))
                 THEN [exc |-> "none", v |-> 0 - DigitsVal(Tail(a.s))]
                 ELSE [exc |-> "ValueError", v |-> 0]
      [] OTHER -> [exc |-> "TypeError", v |-> 0]

\* str.__gt__ : lexicographic by code point, a proper prefix is smaller
RECURSIVE str_gt(_, _)
str_gt(a, b) ==
    IF a = <<>> THEN FALSE
    ELSE IF b = <<>> THEN TRUE
    ELSE IF Ord(Head(a)) # Ord(Head(b)) THEN Ord(Head(a)) > Ord(Head(b))
    ELSE str_gt(Tail(a), Tail(b))

\* x > y on two stored amounts, as they are (no float() around them):
\* numbers compare numerically, strings lexicographically, and a number
\* against a string raises TypeError
py_gt(x, y) ==
    IF x.k = "num" /\ y.k = "num" THEN [exc |-> "none", v |-> x.v > y.v]
    ELSE IF x.k = "str" /\ y.k = "str" THEN [exc |-> "none", v |-> str_gt(x.s, y.s)]
    ELSE [exc |-> "TypeError", v |-> FALSE]

\* a > b > c : b > c is evaluated only when a > b is true
py_chain_gt(a, b, c) ==
    LET first == py_gt(a, b) IN
    IF first.exc # "none" \/ ~first.v THEN first ELSE py_gt(b, c)

isinstance_int(x) == x.k = "int"

----------------------------------------------------------------------------
(* validate_payload *)

required_fields == <<"type", "amount", "user_id", "time">>

Returned(ok, msg) == [exc |-> "none", is_valid |-> ok, error_message |-> msg]
Raised(e) == [exc |-> e, is_valid |-> FALSE, error_message |-> <<>>]

Last(h) == h[Len(h)]

\* lines 31-33: the first required field the payload lacks, 0 when none
first_missing(d) ==
    IF \A i \in 1..4 : required_fields[i] \in DOMAIN d THEN 0
    ELSE CHOOSE i \in 1..4 :
            /\ required_fields[i] \notin DOMAIN d
            /\ \A j \in 1..(i - 1) : required_fields[j] \in DOMAIN d

\* the comparison of line 58 written with < : an equal time passes
time_not_sequential_lt(d) ==
    /\ d["user_id"].v \in DOMAIN user_actions
    /\ d["time"].v < Last(user_actions[d["user_id"].v])["time"].v

\* line 57 reading the last event of every user instead of this user's
time_not_sequential_any_user(d) ==
    \E u \in DOMAIN user_actions : d["time"].v <= Last(user_actions[u])["time"].v

\* lines 55-59
time_not_sequential(d) ==
    /\ d["user_id"].v \in DOMAIN user_actions
    /\ d["time"].v <= Last(user_actions[d["user_id"].v])["time"].v

\* lines 28-53: the checks that read the payload alone
validate_fields(d) ==
    IF first_missing(d) # 0
    THEN Returned(FALSE, <<"Missing field: ", required_fields[first_missing(d)]>>)
    ELSE IF d["type"] \notin {"deposit", "withdraw"}
    THEN Returned(FALSE, <<"Invalid action type. Must be 'deposit' or 'withdraw'.">>)
    ELSE IF float(d["amount"]).exc = "TypeError"
    THEN Raised("TypeError")
    ELSE IF float(d["amount"]).exc = "ValueError"
    THEN Returned(FALSE, <<"Invalid amount. Must be a valid number.">>)
    ELSE IF float(d["amount"]).v < 0
    THEN Returned(FALSE, <<"Amount cannot be negative.">>)
    ELSE IF ~isinstance_int(d["user_id"])
    THEN Returned(FALSE, <<"Invalid user_id. Must be an integer.">>)
    ELSE IF ~isinstance_int(d["time"])
    THEN Returned(FALSE, <<"Invalid time. Must be an integer.">>)
    ELSE Returned(TRUE, <<>>)

validate_payload(d) ==
    IF validate_fields(d) # Returned(TRUE, <<>>)
    THEN validate_fields(d)
    ELSE IF time_not_sequential(d)
    THEN Returned(FALSE, <<"Time must be sequential and increasing.">>)
    ELSE Returned(TRUE, <<>>)

----------------------------------------------------------------------------
(* event: lines 88-129 *)

\* lines 91-92 without the test: the history starts anew on every event
store_reset(d) ==
    LET user_id == d["user_id"].v
    IN  [u \in DOMAIN user_actions \cup {user_id} |->
            IF u = user_id THEN <<d>> ELSE user_actions[u]]

\* lines 90-94 with one list shared by the users that have a history: the
\* payload lands in every history
store_shared(d) ==
    LET user_id == d["user_id"].v
    IN  [u \in DOMAIN user_actions \cup {user_id} |->
            IF u \in DOMAIN user_actions THEN Append(user_actions[u], d) ELSE <<d>>]

\* lines 90-94: the dictionary after the payload is stored
store(d) ==
    LET user_id == d["user_id"].v
        created == [u \in DOMAIN user_actions \cup {user_id} |->
                       IF u \in DOMAIN user_actions THEN user_actions[u] ELSE <<>>]
    IN  [created EXCEPT ![user_id] = Append(@, d)]

\* lines 97-99
rule_1100(d) == d["type"] = "withdraw" /\ float(d["amount"]).v > 100

\* lines 102-104 without the test of the length: h[-3:] of a shorter history
\* is the whole history
rule_30_no_length(h) ==
    \A i \in 1..Len(h) : i >= Len(h) - 2 => h[i]["type"] = "withdraw"

\* lines 101-105
rule_30(h) ==
    /\ Len(h) >= 3
    /\ \A i \in (Len(h) - 2)..Len(h) : h[i]["type"] = "withdraw"

IsDeposit(action) == action["type"] = "deposit"

\* line 108 without the filter: the last three events, of whatever type
rule_300_all_events(h) ==
    LET n == Len(h)
    IN  IF n >= 3
        THEN py_chain_gt(h[n]["amount"], h[n - 1]["amount"], h[n - 2]["amount"])
        ELSE [exc |-> "none", v |-> FALSE]

\* lines 107-110: the comparison may raise
rule_300(h) ==
    LET deposits == SelectSeq(h, IsDeposit)
        n == Len(deposits)
    IN  IF n >= 3
        THEN py_chain_gt(deposits[n]["amount"], deposits[n - 1]["amount"],
                         deposits[n - 2]["amount"])
        ELSE [exc |-> "none", v |-> FALSE]

RECURSIVE sum_amounts(_)
sum_amounts(ds) ==
    IF ds = <<>> THEN 0
    ELSE float(Head(ds)["amount"]).v + sum_amounts(Tail(ds))

\* lines 112-120
rule_123(d, h) ==
    LET current_time == d["time"].v
        InWindow(action) ==
            action["type"] = "deposit" /\ current_time - action["time"].v <= 30
        recent_deposits == SelectSeq(h, InWindow)
    IN  sum_amounts(recent_deposits) > 200

Response(status, error, codes, uid) ==
    [status |-> status, error |-> error, alert |-> codes # <<>>,
     alert_codes |-> codes, user_id |-> uid]

\* lines 95-129 on the history h of the user after the append
evaluate(d, h) ==
    LET alert_codes ==
            (IF rule_1100(d) THEN <<1100>> ELSE <<>>)
            \o (IF rule_30(h) THEN <<30>> ELSE <<>>)
            \o (IF rule_300(h).v THEN <<300>> ELSE <<>>)
            \o (IF rule_123(d, h) THEN <<123>> ELSE <<>>)
    IN  IF rule_300(h).exc # "none"
        THEN Response(500, <<>>, <<>>, 0)
        ELSE Response(200, <<>>, alert_codes, d["user_id"].v)

\* the handler with lines 88-94 moved before the test of line 84: a payload
\* that has an integer user_id is stored whatever validate_payload returned
event_store_first(d) ==
    LET v == validate_payload(d)
        storable == "user_id" \in DOMAIN d /\ isinstance_int(d["user_id"])
    IN
    /\ data' = d
    /\ verdict' = v
    /\ prev_actions' = user_actions
    /\ user_actions' = IF storable THEN store(d) ELSE user_actions
    /\ IF v.exc # "none"
       THEN result' = Response(500, <<>>, <<>>, 0)
       ELSE IF ~v.is_valid
       THEN result' = Response(400, v.error_message, <<>>, 0)
       ELSE result' = evaluate(d, store(d)[d["user_id"].v])

\* the request handler, lines 77-129
event(d) ==
    LET v == validate_payload(d) IN
    /\ data' = d
    /\ verdict' = v
    /\ prev_actions' = user_actions
    /\ IF v.exc # "none"
       THEN /\ user_actions' = user_actions
            /\ result' = Response(500, <<>>, <<>>, 0)
       ELSE IF ~v.is_valid
       THEN /\ user_actions' = user_actions
            /\ result' = Response(400, v.error_message, <<>>, 0)
       ELSE /\ user_actions' = store(d)
            /\ result' = evaluate(d, store(d)[d["user_id"].v])

----------------------------------------------------------------------------
(* Requests *)

Payload(keys, type, amount, user_id, time) ==
    [f \in keys |->
        CASE f = "type" -> type
          [] f = "amount" -> amount
          [] f = "user_id" -> user_id
          [] f = "time" -> time]

AllKeys == {"type", "amount", "user_id", "time"}

Times == {0, 30, 31}

DepositAmounts ==
    {Num(100), Num(150), Num(250), Str(<<"1", "5", "0">>), Str(<<"1", "0", "0", "0">>)}

WithdrawAmounts == {Num(100), Num(150)}

\* well-typed requests, with amounts given as JSON numbers and as numeric
\* strings: every kind of event of user 1, two events of user 2
WellTyped ==
    {Payload(AllKeys, "deposit", a, Int_(1), Int_(t)) : a \in DepositAmounts, t \in Times}
    \cup {Payload(AllKeys, "withdraw", a, Int_(1), Int_(t)) : a \in WithdrawAmounts, t \in Times}
    \cup {Payload(AllKeys, "deposit", Num(150), Int_(2), Int_(-1)),
          Payload(AllKeys, "withdraw", Num(150), Int_(2), Int_(31))}

\* one request for each way validation can end without accepting
OneFault ==
    {Payload(AllKeys \ {"time"}, "deposit", Num(100), Int_(1), Int_(0)),
     Payload(AllKeys, "Deposit", Num(100), Int_(1), Int_(31)),
     Payload(AllKeys, "deposit", Num(-5), Int_(1), Int_(31)),
     Payload(AllKeys, "deposit", Str(<<"a", "b", "c">>), Int_(2), Int_(31)),
     Payload(AllKeys, "deposit", Null, Int_(1), Int_(31)),
     Payload(AllKeys, "deposit", Num(100), NotInt("str", 1), Int_(31)),
     Payload(AllKeys, "deposit", Num(100), Int_(1), NotInt("float", 31))}

Payloads == WellTyped \cup OneFault

\* requests with every combination of absent and ill-typed fields
Malformed ==
    {Payload(keys, ty, a, u, t) :
        keys \in SUBSET AllKeys,
        ty \in {"deposit", "Deposit"},
        a \in {Num(100), Str(<<"a", "b", "c">>)},
        u \in {Int_(1), NotInt("str", 1)},
        t \in {Int_(0), NotInt("float", 1)}}
    \cup {Payload(AllKeys, "withdraw", a, u, Int_(t)) :
            a \in {Num(150), Num(-5), Str(<<"-", "5">>), Null},
            u \in {Int_(1), Int_(2), NotInt("str", 1)},
            t \in {0, 31}}

\* requests of one user that build long histories, with amounts given as
\* JSON numbers and as numeric strings
DeepPayloads ==
    {Payload(AllKeys, "deposit", a, Int_(1), Int_(t)) :
        a \in {Num(100), Str(<<"1", "5", "0">>)}, t \in 1..MaxDeep}
    \cup {Payload(AllKeys, "withdraw", Num(100), Int_(1), Int_(t)) : t \in 1..MaxDeep}

\* requests of one user that build a run of deposits followed by a
\* withdrawal, with amounts given as JSON numbers and as a numeric string
RunPayloads ==
    {Payload(AllKeys, "deposit", a, Int_(1), Int_(t)) :
        a \in {Num(100), Num(150), Num(250), Str(<<"1", "5", "0">>)}, t \in 1..MaxRun}
    \cup {Payload(AllKeys, "withdraw", Num(150), Int_(1), Int_(t)) : t \in 1..MaxRun}

RECURSIVE CountEvents(_)
CountEvents(S) ==
    IF S = {} THEN 0
    ELSE LET u == CHOOSE x \in S : TRUE
         IN  Len(user_actions[u]) + CountEvents(S \ {u})

TotalEvents == CountEvents(DOMAIN user_actions)

NoRequest == Payload({}, "", Null, Int_(0), Int_(0))

Workers == 1..MaxWorkers

\* a worker thread that handles no request
Idle ==
    [pc |-> "idle", data |-> NoRequest, accepted |-> FALSE,
     response |-> Response(0, <<>>, <<>>, 0)]

Init ==
    /\ user_actions = [u \in {} |-> <<>>]
    /\ prev_actions = [u \in {} |-> <<>>]
    /\ data = NoRequest
    /\ verdict = Raised("no request")
    /\ result = Response(0, <<>>, <<>>, 0)
    /\ requests = [w \in Workers |-> Idle]

\* one request, handled from start to end before the next one arrives
Submit ==
    \E d \in Payloads :
        /\ validate_payload(d).is_valid => TotalEvents < MaxEvents
        /\ event(d)
        /\ UNCHANGED requests

SubmitMalformed ==
    \E d \in Malformed :
        /\ validate_payload(d).is_valid => TotalEvents < MaxEvents
        /\ event(d)
        /\ UNCHANGED requests

SubmitDeep ==
    \E d \in DeepPayloads :
        /\ validate_payload(d).is_valid => TotalEvents < MaxDeep
        /\ event(d)
        /\ UNCHANGED requests

Next == Submit

Spec == Init /\ [][Next]_vars

NextValidate == SubmitMalformed

SpecValidate == Init /\ [][NextValidate]_vars

NextDeep == SubmitDeep

SpecDeep == Init /\ [][NextDeep]_vars

SubmitRun ==
    \E d \in RunPayloads :
        /\ validate_payload(d).is_valid => TotalEvents < MaxRun
        /\ event(d)
        /\ UNCHANGED requests

NextRun == SubmitRun

SpecRun == Init /\ [][NextRun]_vars

----------------------------------------------------------------------------
(* Concurrent requests *)

(***************************************************************************)
(* The handler takes no lock, and a threaded server runs one handler per   *)
(* request.  A step of a worker is a block of lines of event() or          *)
(* validate_payload() that reads or writes user_actions once; the          *)
(* interpreter may switch threads between two such blocks.                 *)
(***************************************************************************)

ConcurrentPayloads ==
    {Payload(AllKeys, "deposit", Num(100), Int_(1), Int_(t)) : t \in {1, 2}}
    \cup {Payload(AllKeys, "withdraw", Num(150), Int_(u), Int_(1)) : u \in {1, 2}}
    \cup {Payload(AllKeys, "deposit", Null, Int_(1), Int_(2))}

Goto(w, label) == requests' = [requests EXCEPT ![w].pc = label]

Finish(w, response) ==
    requests' = [requests EXCEPT ![w].pc = "done", ![w].response = response]

\* line 77: a request arrives
Receive(w) ==
    /\ requests[w].pc = "idle"
    /\ \E d \in ConcurrentPayloads :
          requests' = [requests EXCEPT ![w].pc = "validate", ![w].data = d]
    /\ UNCHANGED <<user_actions, data, verdict, result, prev_actions>>

\* lines 28-56: the checks of the payload alone, then the test of the key
ValidateFields(w) ==
    LET d == requests[w].data
        v == validate_fields(d)
    IN
    /\ requests[w].pc = "validate"
    /\ IF v.exc # "none"
       THEN Finish(w, Response(500, <<>>, <<>>, 0))
       ELSE IF ~v.is_valid
       THEN Finish(w, Response(400, v.error_message, <<>>, 0))
       ELSE IF d["user_id"].v \in DOMAIN user_actions
       THEN Goto(w, "last")
       ELSE requests' = [requests EXCEPT ![w].pc = "test", ![w].accepted = TRUE]
    /\ UNCHANGED <<user_actions, data, verdict, result, prev_actions>>

\* lines 57-62: the last stored event is read and compared; [][-1] raises
\* IndexError
ReadLast(w) ==
    LET d == requests[w].data
        h == user_actions[d["user_id"].v]
    IN
    /\ requests[w].pc = "last"
    /\ IF h = <<>>
       THEN Finish(w, Response(500, <<>>, <<>>, 0))
       ELSE IF d["time"].v <= Last(h)["time"].v
       THEN Finish(w, Response(400, <<"Time must be sequential and increasing.">>, <<>>, 0))
       ELSE requests' = [requests EXCEPT ![w].pc = "test", ![w].accepted = TRUE]
    /\ UNCHANGED <<user_actions, data, verdict, result, prev_actions>>

\* lines 84-91: the test of the key
TestKey(w) ==
    /\ requests[w].pc = "test"
    /\ IF requests[w].data["user_id"].v \in DOMAIN user_actions
       THEN Goto(w, "append")
       ELSE Goto(w, "create")
    /\ UNCHANGED <<user_actions, data, verdict, result, prev_actions>>

\* line 92: the key is bound to a new empty list
CreateHistory(w) ==
    LET user_id == requests[w].data["user_id"].v IN
    /\ requests[w].pc = "create"
    /\ user_actions' = [u \in DOMAIN user_actions \cup {user_id} |->
                           IF u = user_id THEN <<>> ELSE user_actions[u]]
    /\ Goto(w, "append")
    /\ UNCHANGED <<data, verdict, result, prev_actions>>

\* line 94
AppendEvent(w) ==
    LET user_id == requests[w].data["user_id"].v IN
    /\ requests[w].pc = "append"
    /\ user_actions' = [user_actions EXCEPT ![user_id] = Append(@, requests[w].data)]
    /\ Goto(w, "rules")
    /\ UNCHANGED <<data, verdict, result, prev_actions>>

\* lines 95-129
EvaluateRules(w) ==
    LET d == requests[w].data IN
    /\ requests[w].pc = "rules"
    /\ Finish(w, evaluate(d, user_actions[d["user_id"].v]))
    /\ UNCHANGED <<user_actions, data, verdict, result, prev_actions>>

Step(w) ==
    \/ ValidateFields(w)
    \/ ReadLast(w)
    \/ TestKey(w)
    \/ CreateHistory(w)
    \/ AppendEvent(w)
    \/ EvaluateRules(w)

NextConcurrent ==
    \E w \in Workers :
        \/ Receive(w)
        \/ Step(w)

SpecConcurrent == Init /\ [][NextConcurrent]_vars

\* every thread that has a request is scheduled again and again
SpecConcurrentFair ==
    SpecConcurrent /\ \A w \in Workers : WF_vars(Step(w))

----------------------------------------------------------------------------
(* Vocabulary of the claims *)

Accepted == verdict.is_valid

Rejected == result.status = 400

UserOf(d) == d["user_id"].v

TimeOf(e) == e["time"].v

\* the history of user u in dictionary ua, empty when u is no key of it
HistoryOf(ua, u) == IF u \in DOMAIN ua THEN ua[u] ELSE <<>>

IsPrefix(a, b) == Len(a) <= Len(b) /\ SubSeq(b, 1, Len(a)) = a

NonSequentialError == <<"Time must be sequential and increasing.">>

----------------------------------------------------------------------------
(* C1 *)

\* C1: in every reachable state every stored history has strictly
\* increasing times, and after an accepted submission the stored event is
\* the last of its user's history, later than every other event of it, so
\* that current time - event time is never negative.
C1_StrictlyIncreasingTime ==
    /\ \A u \in DOMAIN user_actions :
          \A i \in 1..(Len(user_actions[u]) - 1) :
              TimeOf(user_actions[u][i]) < TimeOf(user_actions[u][i + 1])
    /\ Accepted =>
          LET h == user_actions[UserOf(data)] IN
          /\ Last(h) = data
          /\ \A i \in 1..(Len(h) - 1) : TimeOf(h[i]) < TimeOf(data)
          /\ \A i \in 1..Len(h) : TimeOf(data) - TimeOf(h[i]) >= 0

\* an accepted third event of a user
C1_Witness ==
    /\ Accepted
    /\ Len(user_actions[UserOf(data)]) >= 3

----------------------------------------------------------------------------
(* C2 *)

\* C2: a submission that validation rejects leaves the whole dictionary as
\* it was (no event appended, no key created, no other history changed),
\* and the same payload submitted again is rejected with the same error.
C2_RejectionChangesNothing ==
    Rejected =>
        /\ user_actions = prev_actions
        /\ validate_payload(data) = verdict
        /\ ~validate_payload(data).is_valid

\* a rejected request that names a user without history, while another
\* user has one
C2_Witness ==
    /\ Rejected
    /\ DOMAIN user_actions # {}
    /\ "user_id" \in DOMAIN data
    /\ isinstance_int(data["user_id"])
    /\ UserOf(data) \notin DOMAIN user_actions

----------------------------------------------------------------------------
(* C3 *)

\* C3: an accepted submission for user u makes history[u] the former
\* history[u] (empty if u was absent) with the event appended, and changes
\* no other history; whatever the outcome of a submission, every history
\* that existed before it is a prefix of the history after it.
C3_AcceptedAppendsOnly ==
    /\ Accepted =>
          LET u == UserOf(data) IN
          /\ DOMAIN user_actions = DOMAIN prev_actions \cup {u}
          /\ user_actions[u] = Append(HistoryOf(prev_actions, u), data)
          /\ \A w \in DOMAIN prev_actions \ {u} : user_actions[w] = prev_actions[w]
    /\ \A w \in DOMAIN prev_actions :
          /\ w \in DOMAIN user_actions
          /\ IsPrefix(prev_actions[w], user_actions[w])

\* an accepted event of a user who had a history, next to another user's
C3_Witness ==
    /\ Accepted
    /\ HistoryOf(prev_actions, UserOf(data)) # <<>>
    /\ \E w \in DOMAIN prev_actions : w # UserOf(data)

----------------------------------------------------------------------------
(* C4 *)

\* the payload passes checks 1 to 5 of the validator
PassesChecks1To5(d) ==
    /\ AllKeys \subseteq DOMAIN d
    /\ d["type"] \in {"deposit", "withdraw"}
    /\ float(d["amount"]).exc = "none"
    /\ float(d["amount"]).v >= 0
    /\ d["user_id"].k = "int"
    /\ d["time"].k = "int"

\* C4: an event that passes checks 1 to 5 is rejected as non-sequential
\* exactly when its user has a history whose last event is not earlier
\* than it, and is accepted otherwise; only that user's own last stored
\* event is looked at.
C4_SequentialTimeCheck ==
    PassesChecks1To5(data) =>
        LET h == HistoryOf(prev_actions, UserOf(data))
            late == h # <<>> /\ TimeOf(data) <= TimeOf(Last(h))
        IN  /\ late => Rejected /\ result.error = NonSequentialError
            /\ ~late => Accepted

\* an accepted event that is not later than the last event of another user
C4_Witness ==
    /\ PassesChecks1To5(data)
    /\ Accepted
    /\ \E w \in DOMAIN user_actions :
          /\ w # UserOf(data)
          /\ TimeOf(data) <= TimeOf(Last(user_actions[w]))

----------------------------------------------------------------------------
(* C5 *)

\* the amount is a non-negative number, or a string that denotes one
IsNonNegativeNumeric(a) ==
    \/ a.k = "num" /\ a.v >= 0
    \/ a.k = "str" /\ float(a).exc = "none" /\ float(a).v >= 0

\* the six checks of the validator, in their order: the number of the first
\* one the payload d fails against the dictionary ua, 0 when it fails none
FirstFailingCheck(d, ua) ==
    IF ~(AllKeys \subseteq DOMAIN d) THEN 1
    ELSE IF d["type"] \notin {"deposit", "withdraw"} THEN 2
    ELSE IF ~IsNonNegativeNumeric(d["amount"]) THEN 3
    ELSE IF d["user_id"].k # "int" THEN 4
    ELSE IF d["time"].k # "int" THEN 5
    ELSE IF /\ HistoryOf(ua, UserOf(d)) # <<>>
            /\ TimeOf(d) <= TimeOf(Last(HistoryOf(ua, UserOf(d)))) THEN 6
    ELSE 0

\* the first missing field in the order type, amount, user_id, time
FirstMissingField(d) ==
    IF "type" \notin DOMAIN d THEN "type"
    ELSE IF "amount" \notin DOMAIN d THEN "amount"
    ELSE IF "user_id" \notin DOMAIN d THEN "user_id"
    ELSE "time"

\* the messages by which the response reports a failure of check n
MessagesOfCheck(n, d) ==
    CASE n = 1 -> {<<"Missing field: ", FirstMissingField(d)>>}
      [] n = 2 -> {<<"Invalid action type. Must be 'deposit' or 'withdraw'.">>}
      [] n = 3 -> {<<"Amount cannot be negative.">>,
                   <<"Invalid amount. Must be a valid number.">>}
      [] n = 4 -> {<<"Invalid user_id. Must be an integer.">>}
      [] n = 5 -> {<<"Invalid time. Must be an integer.">>}
      [] n = 6 -> {NonSequentialError}

Submitted == result.status # 0

\* C5: for every submission the error reported is that of the first check,
\* in the order 1..6, that the payload fails (with the first missing field
\* named), and a payload that fails no check is accepted.
C5_FirstFailingCheckReported ==
    Submitted =>
        LET n == FirstFailingCheck(data, prev_actions) IN
        IF n = 0 THEN Accepted
        ELSE Rejected /\ result.error \in MessagesOfCheck(n, data)

\* the same for the submissions in which float() raises no TypeError
C5_OrderUnlessTypeError ==
    Submitted /\ verdict.exc = "none" =>
        LET n == FirstFailingCheck(data, prev_actions) IN
        IF n = 0 THEN Accepted
        ELSE Rejected /\ result.error \in MessagesOfCheck(n, data)

----------------------------------------------------------------------------
(* C6 *)

AmountNegativeOrNonNumeric(a) ==
    \/ a.k = "num" /\ a.v < 0
    \/ a.k = "str" /\ (float(a).exc # "none" \/ float(a).v < 0)
    \/ a.k = "null"

\* C6: a payload with all four fields and a valid kind whose amount is
\* negative or not a number (a non-numeric string, null) is rejected with
\* the invalid-amount error, and the dictionary is unchanged.
C6_BadAmountRejected ==
    /\ Submitted
    /\ AllKeys \subseteq DOMAIN data
    /\ data["type"] \in {"deposit", "withdraw"}
    /\ AmountNegativeOrNonNumeric(data["amount"])
    => /\ Rejected
       /\ result.error \in MessagesOfCheck(3, data)
       /\ user_actions = prev_actions

----------------------------------------------------------------------------
(* C7 - C10: the rules *)

\* the history of the submitting user after the append
PostHistory == user_actions[UserOf(data)]

NumericAmount(e) == float(e["amount"]).v

Deposits(h) == SelectSeq(h, LAMBDA e : e["type"] = "deposit")

Holds1100 == data["type"] = "withdraw" /\ NumericAmount(data) > 100

Holds30 ==
    /\ Len(PostHistory) >= 3
    /\ \A i \in (Len(PostHistory) - 2)..Len(PostHistory) :
          PostHistory[i]["type"] = "withdraw"

Holds300 ==
    LET ds == Deposits(PostHistory)
        n == Len(ds)
    IN  /\ n >= 3
        /\ NumericAmount(ds[n - 2]) < NumericAmount(ds[n - 1])
        /\ NumericAmount(ds[n - 1]) < NumericAmount(ds[n])

RECURSIVE SumOf(_)
SumOf(S) ==
    IF S = {} THEN 0
    ELSE LET i == CHOOSE x \in S : TRUE
         IN  NumericAmount(PostHistory[i]) + SumOf(S \ {i})

Holds123 ==
    SumOf({i \in 1..Len(PostHistory) :
              /\ PostHistory[i]["type"] = "deposit"
              /\ TimeOf(data) - TimeOf(PostHistory[i]) <= 30}) > 200

HoldsRule(code) ==
    CASE code = 1100 -> Holds1100
      [] code = 30 -> Holds30
      [] code = 300 -> Holds300
      [] code = 123 -> Holds123

InResult(code) ==
    /\ result.status = 200
    /\ \E i \in 1..Len(result.alert_codes) : result.alert_codes[i] = code

\* C7: an accepted submission returns exactly the codes of the rules whose
\* condition holds on the post-append history, in the order 1100, 30, 300,
\* 123, and alert is true exactly when there is a code.
C7_CodesAreTheRulesThatHold ==
    Accepted =>
        /\ result.status = 200
        /\ result.alert_codes = SelectSeq(<<1100, 30, 300, 123>>, HoldsRule)
        /\ result.alert = (result.alert_codes # <<>>)

\* C8: an accepted submission returns 300 exactly when the user has three
\* deposits and the numeric amounts of the last three strictly increase.
C8_Rule300 == Accepted => (InResult(300) <=> Holds300)

\* C9: an accepted submission returns 123 exactly when the deposits of the
\* user at most 30 time units old sum to more than 200.
C9_Rule123 == Accepted => (InResult(123) <=> Holds123)

\* C10: an accepted submission returns 30 exactly when the last three
\* events of the user are withdrawals.
C10_Rule30 == Accepted => (InResult(30) <=> Holds30)

\* what the handler does for the submissions it answers with a result:
\* rules 1100, 30 and 123 are as claimed, rule 300 is not
RulesWhenAnswered ==
    Accepted /\ result.status = 200 =>
        /\ InResult(1100) <=> Holds1100
        /\ InResult(30) <=> Holds30
        /\ InResult(123) <=> Holds123
        /\ result.alert = (result.alert_codes # <<>>)
        /\ \A i, j \in 1..Len(result.alert_codes) :
              i < j => \E a, b \in 1..4 :
                          /\ a < b
                          /\ <<1100, 30, 300, 123>>[a] = result.alert_codes[i]
                          /\ <<1100, 30, 300, 123>>[b] = result.alert_codes[j]

----------------------------------------------------------------------------
(* C11 *)

\* C11: an accepted submission returns 1100 exactly when it is a withdrawal
\* of more than 100, whatever the history of the user.
C11_Rule1100 == Accepted => (InResult(1100) <=> Holds1100)

----------------------------------------------------------------------------
(* C12 *)

\* C12: every submission that passed validation completes with an alert
\* result: appending and evaluating the rules raises nothing.
C12_EngineNeverFails == Accepted => result.status = 200

----------------------------------------------------------------------------
(* C13, C14, C15: concurrent submissions *)

\* no worker is in the middle of a request
AllDone == \A w \in Workers : requests[w].pc \in {"idle", "done"}

\* C13: while submissions of one user run concurrently, in every reachable
\* state the times of the events stored for a user increase strictly from
\* each stored event to every later one: no interleaving stores two events
\* with non-increasing times.
C13_AtomicPerUser ==
    \A u \in DOMAIN user_actions :
        \A i, j \in 1..Len(user_actions[u]) :
            i < j => TimeOf(user_actions[u][i]) < TimeOf(user_actions[u][j])

Occurrences(h, d) == Cardinality({i \in 1..Len(h) : h[i] = d})

\* C14: once every concurrent submission has completed, the history of a
\* user holds every event whose submission passed validation, as many
\* times as it was accepted: none is dropped or overwritten by the
\* creation of the history.
C14_NoLostUpdate ==
    AllDone =>
        \A w \in Workers :
            requests[w].accepted =>
                LET d == requests[w].data IN
                Occurrences(HistoryOf(user_actions, UserOf(d)), d)
                    = Cardinality({x \in Workers : /\ requests[x].accepted
                                                   /\ requests[x].data = d})

\* C15: a submission that has started can always take its next step,
\* whatever the submissions of the other workers are doing, and a
\* submission that has finished has returned an alert result (200) or a
\* validation error (400).
C15_EverySubmissionReturns ==
    \A w \in Workers :
        /\ requests[w].pc \notin {"idle", "done"} => ENABLED Step(w)
        /\ requests[w].pc = "done" => requests[w].response.status \in {200, 400}

\* the part of C15 that the code meets: no submission ever waits
C15_NeverBlocked ==
    \A w \in Workers :
        requests[w].pc \notin {"idle", "done"} => ENABLED Step(w)

\* the part of C15 that the code meets: under fair scheduling every started
\* submission finishes, with a response or with an exception
C15_Terminates ==
    \A w \in Workers :
        (requests[w].pc # "idle") ~> (requests[w].pc = "done")

----------------------------------------------------------------------------
(* C16 *)

\* C16: the first accepted event of a user returns <<1100>> when it is a
\* withdrawal of more than 100, <<123>> when it is a deposit of more than
\* 200, and no code otherwise; no result has 30 or 300 while the user has
\* fewer than three stored events.
C16_FirstEvent ==
    Accepted =>
        /\ HistoryOf(prev_actions, UserOf(data)) = <<>> =>
              /\ result.status = 200
              /\ result.alert_codes =
                    IF data["type"] = "withdraw" /\ NumericAmount(data) > 100
                    THEN <<1100>>
                    ELSE IF data["type"] = "deposit" /\ NumericAmount(data) > 200
                    THEN <<123>>
                    ELSE <<>>
        /\ Len(PostHistory) < 3 =>
              /\ result.status = 200
              /\ ~InResult(30)
              /\ ~InResult(300)

\* a first deposit of more than 200 that returns 123 alone
C16_Witness ==
    /\ Accepted
    /\ HistoryOf(prev_actions, UserOf(data)) = <<>>
    /\ data["type"] = "deposit"
    /\ NumericAmount(data) > 200
    /\ result.alert_codes = <<123>>

----------------------------------------------------------------------------
(* C17 *)

HasUser(d) == "user_id" \in DOMAIN d /\ d["user_id"].k = "int"

\* the response to payload d as a function of d and of one history h alone
OutcomeOn(d, h) ==
    IF ~(AllKeys \subseteq DOMAIN d)
    THEN Response(400, <<"Missing field: ", FirstMissingField(d)>>, <<>>, 0)
    ELSE IF d["type"] \notin {"deposit", "withdraw"}
    THEN Response(400, <<"Invalid action type. Must be 'deposit' or 'withdraw'.">>, <<>>, 0)
    ELSE IF d["amount"].k = "null"
    THEN Response(500, <<>>, <<>>, 0)
    ELSE IF float(d["amount"]).exc # "none"
    THEN Response(400, <<"Invalid amount. Must be a valid number.">>, <<>>, 0)
    ELSE IF float(d["amount"]).v < 0
    THEN Response(400, <<"Amount cannot be negative.">>, <<>>, 0)
    ELSE IF d["user_id"].k # "int"
    THEN Response(400, <<"Invalid user_id. Must be an integer.">>, <<>>, 0)
    ELSE IF d["time"].k # "int"
    THEN Response(400, <<"Invalid time. Must be an integer.">>, <<>>, 0)
    ELSE IF h # <<>> /\ TimeOf(d) <= TimeOf(Last(h))
    THEN Response(400, NonSequentialError, <<>>, 0)
    ELSE evaluate(d, Append(h, d))

\* C17: the response to a submission of user u is a function of the payload
\* and of the history of u alone; that history holds the accepted events of
\* u and no event of another user, and a submission of u leaves the history
\* of every other user as it was.  Submissions of other users in between
\* therefore change neither the outcomes nor the history of u.
C17_UserIsolation ==
    /\ \A w \in DOMAIN user_actions :
          \A i \in 1..Len(user_actions[w]) : UserOf(user_actions[w][i]) = w
    /\ Submitted =>
          LET own == IF HasUser(data)
                     THEN HistoryOf(prev_actions, UserOf(data)) ELSE <<>>
          IN  /\ result = OutcomeOn(data, own)
              /\ \A w \in DOMAIN user_actions \cup DOMAIN prev_actions :
                    \/ (HasUser(data) /\ w = UserOf(data))
                    \/ HistoryOf(user_actions, w) = HistoryOf(prev_actions, w)

\* a submission of a user with a history that returns codes, while another
\* user has a history too
C17_Witness ==
    /\ result.status = 200
    /\ result.alert_codes # <<>>
    /\ Len(PostHistory) >= 2
    /\ \E w \in DOMAIN prev_actions : w # UserOf(data) /\ prev_actions[w] # <<>>

----------------------------------------------------------------------------
(* C18 *)

\* C18: a user is a key of user_actions exactly when a submission of that
\* user has been accepted; when no submission is in flight no stored
\* history is empty; and whenever a validation is about to read the last
\* event of a history (line 57), that history is not empty.
C18_LazyCreation ==
    /\ Accepted => UserOf(data) \in DOMAIN user_actions
    /\ \A w \in Workers :
          requests[w].accepted /\ requests[w].pc = "done" =>
              UserOf(requests[w].data) \in DOMAIN user_actions
    /\ AllDone => \A u \in DOMAIN user_actions : user_actions[u] # <<>>
    /\ \A u \in DOMAIN user_actions :
          \/ \E i \in 1..Len(user_actions[u]) : UserOf(user_actions[u][i]) = u
          \/ \E w \in Workers : /\ requests[w].accepted
                                 /\ UserOf(requests[w].data) = u
    /\ \A w \in Workers :
          requests[w].pc = "last" =>
              user_actions[UserOf(requests[w].data)] # <<>>

\* the part of C18 about sequential submissions: every key has an event
C18_SequentialHistoriesNonEmpty ==
    /\ Accepted => UserOf(data) \in DOMAIN user_actions
    /\ \A u \in DOMAIN user_actions : user_actions[u] # <<>>

----------------------------------------------------------------------------
(* C19 *)

\* what the submission that stored the last event of history h returned
ReturnedBy(h) == evaluate(Last(h), h)

Has300(r) ==
    /\ r.status = 200
    /\ \E i \in 1..Len(r.alert_codes) : r.alert_codes[i] = 300

\* C19: the result of an accepted submission is the evaluation of the rules
\* on the history it was appended to, and an accepted withdrawal returns
\* 300 exactly when the previous accepted submission of the same user (the
\* one that stored the last event of its history) returned 300: a
\* withdrawal never changes whether 300 fires, so that 300 persists from a
\* deposit over the withdrawals that follow it.
C19_Rule300Persists ==
    Accepted =>
        LET h == HistoryOf(prev_actions, UserOf(data)) IN
        /\ result = ReturnedBy(PostHistory)
        /\ data["type"] = "withdraw" =>
              (InResult(300) <=> (h # <<>> /\ Has300(ReturnedBy(h))))

\* an accepted withdrawal that returns 300
C19_Witness ==
    /\ Accepted
    /\ data["type"] = "withdraw"
    /\ InResult(300)

====
